---- MODULE Spec2Model ----
(***************************************************************************)
(* Model of the "Analyze Scholar" run of src/streamlit/app.py: the author  *)
(* profile fetch, the per-paper resolver chain (identifier, registry,      *)
(* citation service, open-access lookup), the row that is appended for     *)
(* each paper, and the batch-wide RIM / Risk_Factor pass.                  *)
(*                                                                         *)
(* Python values whose shape varies are tagged records (PNone, PStr, PInt, *)
(* PDict, PList).  Integer-valued fields use None == -1 for Python's None. *)
(* Floats are fixed point: CPY and Author_affil_completeness in 1/1000     *)
(* (they are rounded to 3 places), RIM in 1/100 (rounded to 2 places),     *)
(* sub-scores, logarithms and Risk_Factor in 1/FX.                         *)
(* Presentation-only columns (Volume, Issue, Affiliations, Scholar Name)   *)
(* are not carried.                                                        *)
(***************************************************************************)
EXTENDS Integers, Sequences, FiniteSets, TLC

\* ---------------------------------------------------------------- bounds
\* longest article list the profile source returns in the model
MaxStubs == 2
\* the non-zero citation count the citation service reports
CitHi == 5

\* ------------------------------------------------------ program constants
CURRENT_YEAR == 2025
ArticleCap == 10

\* ------------------------------------------------------- value encodings
None == -1
FX == 10000
LN2 == 6931

PNone == [t |-> "none"]
PStr(s) == [t |-> "str", s |-> s]
PInt(n) == [t |-> "int", n |-> n]
PDict(kv) == [t |-> "dict", kv |-> kv]
PList(xs) == [t |-> "list", xs |-> xs]

\* Python truthiness of a tagged value
Truthy(v) ==
    CASE v.t = "none" -> FALSE
      [] v.t = "str"  -> v.s # ""
      [] v.t = "int"  -> v.n # 0
      [] v.t = "dict" -> v.kv # <<>>
      [] v.t = "list" -> v.xs # <<>>

\* dict.get(key): the value of the first pair with that key, PNone if none
RECURSIVE GetKV(_, _)
GetKV(kv, key) ==
    IF kv = <<>> THEN PNone
    ELSE IF Head(kv)[1] = key THEN Head(kv)[2]
    ELSE GetKV(Tail(kv), key)

\* the sequence s[1..n] (Python s[:n])
Take(s, n) == IF Len(s) <= n THEN s ELSE SubSeq(s, 1, n)

RECURSIVE Concat(_)
Concat(ss) == IF ss = <<>> THEN <<>> ELSE Head(ss) \o Concat(Tail(ss))

\* ------------------------------------------------------ DOI extraction
\* DOI_RE.search(s).group(0) on the texts of the model, "" for no match
DOI_RE_search(s) ==
    CASE s = "https://doi.org/10.2000/q" -> "10.2000/q"
      [] s = "10.1000/xyz"               -> "10.1000/xyz"
      [] OTHER                            -> ""

\* str.strip() on the texts of the model
Strip(s) ==
    CASE s = " C " -> "C"
      [] s = " "   -> ""
      [] OTHER     -> s

\* the string values of a mapping, in order
RECURSIVE DictStrings(_)
DictStrings(kv) ==
    IF kv = <<>> THEN <<>>
    ELSE (IF Head(kv)[2].t = "str" THEN <<Head(kv)[2].s>> ELSE <<>>)
         \o DictStrings(Tail(kv))

\* the strings the scan of one nested field visits, in visiting order
RECURSIVE ListStrings(_)
ListStrings(xs) ==
    IF xs = <<>> THEN <<>>
    ELSE (CASE Head(xs).t = "str"  -> <<Head(xs).s>>
            [] Head(xs).t = "dict" -> DictStrings(Head(xs).kv)
            [] OTHER               -> <<>>)
         \o ListStrings(Tail(xs))

FieldStrings(val) ==
    CASE val.t = "dict" -> DictStrings(val.kv)
      [] val.t = "list" -> ListStrings(val.xs)
      [] OTHER          -> <<>>

RECURSIVE FirstMatch(_)
FirstMatch(strs) ==
    IF strs = <<>> THEN ""
    ELSE IF DOI_RE_search(Head(strs)) # "" THEN DOI_RE_search(Head(strs))
    ELSE FirstMatch(Tail(strs))

\* extract_doi_from_serp_item; "" stands for the None it returns
extract_doi_from_serp_item(item) ==
    LET ext  == IF Truthy(item.external_ids) THEN item.external_ids.kv ELSE <<>>
        d1   == GetKV(ext, "DOI")
        d2   == GetKV(ext, "doi")
        doi0 == IF Truthy(d1) THEN d1.s ELSE IF Truthy(d2) THEN d2.s ELSE ""
    IN  IF doi0 # "" THEN doi0
        ELSE FirstMatch(Concat(<<FieldStrings(item.inline_links),
                                 FieldStrings(item.links),
                                 FieldStrings(item.source),
                                 FieldStrings(item.publication_info),
                                 FieldStrings(item.publication)>>))

\* ------------------------------------------------------ input universes
DAbsent == [t |-> "absent"]
DParts(p) == [t |-> "parts", parts |-> p]

Stub(title, cited_by, external_ids, links, source, publication, year, authors) ==
    [title |-> title, cited_by |-> cited_by, external_ids |-> external_ids,
     inline_links |-> PNone, links |-> links, source |-> source,
     publication_info |-> PNone, publication |-> publication,
     year |-> year, authors |-> authors]

\* the publication stubs the profile source may return
StubUniverse ==
    << \* inline count only, nothing else known
       Stub("A", PDict(<< <<"value", PInt(12)>> >>), PNone, PNone, PNone, PNone,
            None, PNone),
       \* explicit identifier, nested publication mapping, author list
       Stub("B", PInt(3), PDict(<< <<"DOI", PStr("10.1000/xyz")>> >>), PNone,
            PStr("Src"), PDict(<< <<"name", PStr("J")>>, <<"year", PInt(2023)>> >>),
            2024, PList(<<PStr("a1"), PStr("a2"), PStr("a3")>>)),
       \* publication and authors as plain strings, count not a number
       Stub(" C ", PDict(<< <<"value", PStr("n/a")>> >>), PNone, PNone, PNone,
            PStr("Nature, 2020"), 2025, PStr("a1, a2")),
       \* identifier only inside a link list, year only in the nested mapping
       Stub("D", PNone, PNone,
            PList(<<PStr("pdf"), PStr("https://doi.org/10.2000/q")>>), PNone,
            PDict(<< <<"year", PInt(2023)>> >>), None, PNone) >>

CR_EMPTY ==
    [DOI |-> "", title |-> <<>>, container |-> <<>>, issued |-> DAbsent,
     pp |-> DAbsent, author |-> <<>>, funder |-> <<>>]

\* the registry records: an author is the sequence of its affiliation names
CrossrefUniverse ==
    { CR_EMPTY,
      \* a complete record
      [DOI |-> "10.1000/xyz", title |-> <<"T1">>, container |-> <<"J1">>,
       issued |-> DParts(<< <<2024>> >>), pp |-> DParts(<< <<2023>> >>),
       author |-> << <<"U">>, <<>> >>, funder |-> <<"F1", "F2">>],
      \* another work: no title, venue, authors or funders, and an "issued"
      \* date whose date-parts list is empty
      [DOI |-> "10.3000/other", title |-> <<>>, container |-> <<>>,
       issued |-> DParts(<<>>), pp |-> DParts(<< <<2023>> >>),
       author |-> <<>>, funder |-> <<>>] }

\* what the registry answers to a query by DOI: nothing, or a record of that DOI
CrossrefByDoiResponses(d) == {r \in CrossrefUniverse : r.DOI \in {"", d}}
CrossrefByTitleResponses == CrossrefUniverse

\* (citationCount, isRetracted) of the citation service by DOI
S2DoiResponses == [cit : {0, CitHi}, retracted : BOOLEAN]
\* (citationCount, isRetracted, externalIds.DOI) of the best title match;
\* cit 0, not retracted, no DOI is also the answer of a failed lookup
S2TitleResponses ==
    [cit : {0, CitHi}, retracted : BOOLEAN, DOI : {"", "10.4000/s2"}]

\* ------------------------------------------------------ per-paper parsing
\* lines 249-258: 0 on any exception of int()
cited_by_of(art) ==
    LET cb == art.cited_by IN
    CASE cb.t = "dict" ->
           LET v == GetKV(cb.kv, "value") IN
           IF v.t = "int" THEN v.n ELSE 0
      [] cb.t = "int"  -> cb.n
      [] OTHER         -> 0

\* field.get('date-parts', [[None]])[0][0]; ok = FALSE when indexing raises
DateYear(d) ==
    IF d.t = "absent" THEN [ok |-> TRUE, v |-> None]
    ELSE IF d.parts = <<>> THEN [ok |-> FALSE, v |-> None]
    ELSE IF d.parts[1] = <<>> THEN [ok |-> FALSE, v |-> None]
    ELSE [ok |-> TRUE, v |-> d.parts[1][1]]

YearTruthy(y) == y # None /\ y # 0

\* lines 277-281: issued or published-print, None when either indexing raises
RegistryYear(cr) ==
    LET a == DateYear(cr.issued)
        b == DateYear(cr.pp)
    IN  IF ~a.ok THEN None
        ELSE IF YearTruthy(a.v) THEN a.v
        ELSE IF ~b.ok THEN None
        ELSE b.v

\* art.get("publication", {}).get(key): raises unless publication is a mapping
PublicationGet(art, key) ==
    CASE art.publication.t = "none" -> [ok |-> TRUE, v |-> PNone]
      [] art.publication.t = "dict" -> [ok |-> TRUE, v |-> GetKV(art.publication.kv, key)]
      [] OTHER                      -> [ok |-> FALSE, v |-> PNone]

\* lines 282-283
ResolveYear(cr, art) ==
    LET y == RegistryYear(cr) IN
    IF YearTruthy(y) THEN [ok |-> TRUE, v |-> y]
    ELSE IF YearTruthy(art.year) THEN [ok |-> TRUE, v |-> art.year]
    ELSE LET p == PublicationGet(art, "year") IN
         IF ~p.ok THEN [ok |-> FALSE, v |-> None]
         ELSE [ok |-> TRUE, v |-> IF p.v.t = "int" THEN p.v.n ELSE None]

\* line 272
ResolveJournal(cr, art) ==
    IF cr.container # <<>> THEN [ok |-> TRUE, v |-> cr.container[1]]
    ELSE LET p == PublicationGet(art, "name") IN
         IF ~p.ok THEN [ok |-> FALSE, v |-> ""]
         ELSE IF Truthy(p.v) THEN [ok |-> TRUE, v |-> p.v.s]
         ELSE IF art.source.t = "str" THEN [ok |-> TRUE, v |-> art.source.s]
         ELSE [ok |-> TRUE, v |-> ""]

\* parse_crossref_authors_and_affiliations: (num_authors, authors_with_aff)
RECURSIVE CountWithAff(_)
CountWithAff(authors) ==
    IF authors = <<>> THEN 0
    ELSE (IF Head(authors) # <<>> THEN 1 ELSE 0) + CountWithAff(Tail(authors))

parse_crossref_authors_and_affiliations(cr) ==
    [num_authors |-> Len(cr.author), authors_with_aff |-> CountWithAff(cr.author)]

\* lines 286-290
ResolveNumAuthors(cr, art) ==
    LET n == IF cr # CR_EMPTY THEN Len(cr.author) ELSE 0 IN
    IF n # 0 THEN n
    ELSE IF art.authors.t = "list" THEN Len(art.authors.xs) ELSE 0

\* ------------------------------------------------------------- scoring
\* round(a / b, n) on the scaled integers: nearest, ties to even
RoundHalfEven(a, b) ==
    LET q == a \div b
        r == a % b
    IN  IF 2 * r < b THEN q
        ELSE IF 2 * r > b THEN q + 1
        ELSE IF q % 2 = 0 THEN q ELSE q + 1

Max(a, b) == IF a >= b THEN a ELSE b
Min(a, b) == IF a <= b THEN a ELSE b

\* compute_cpy followed by round(., 3): citations per year in 1/1000
compute_cpy(citations, year) ==
    IF ~YearTruthy(year) THEN 0
    ELSE LET yrs == Max(1, CURRENT_YEAR - year + 1)
         IN  RoundHalfEven(citations * 1000, yrs)

\* ln(n / d) in 1/FX for n >= d > 0: halve down to [1, 2), then the atanh series
RECURSIVE LnRatio(_, _)
LnRatio(n, d) ==
    IF n >= 2 * d THEN LN2 + LnRatio(n, 2 * d)
    ELSE LET t  == ((n - d) * FX) \div (n + d)
             t2 == (t * t) \div FX
             t3 == (t * t2) \div FX
             t5 == (t3 * t2) \div FX
             t7 == (t5 * t2) \div FX
         IN  2 * (t + t3 \div 3 + t5 \div 5 + t7 \div 7)

\* math.log1p of a value in 1/1000, result in 1/FX
log1p(x) == LnRatio(1000 + x, 1000)

\* mutant of weights: 2.0 written for 0.20
weights_R200 == [C |-> 25, J |-> 20, D |-> 15, R |-> 200, F |-> 10, O |-> 5, P |-> 5]

weights == [C |-> 25, J |-> 20, D |-> 15, R |-> 20, F |-> 10, O |-> 5, P |-> 5]

\* the citation component C of compute_rim_with_logC, in 1/FX
LogC(cpy, max_cpy) ==
    IF max_cpy > 0 THEN (log1p(cpy) * FX) \div log1p(max_cpy) ELSE 0

\* lines 158-160: the weighted sum, times 100, rounded to 2 places
WeightedRim(C, J, D, R, F, O, P) ==
    LET val == weights.C * C + weights.J * J + weights.D * D + weights.R * R
               + weights.F * F + weights.O * O + weights.P * P
    IN  RoundHalfEven(val * 100, FX)

\* compute_rim_with_logC: sub-scores in 1/FX, weights in 1/100, result in 1/100
compute_rim_with_logC(cpy, max_cpy, J, D, R, F, O, P) ==
    WeightedRim(LogC(cpy, max_cpy), J, D, R, F, O, P)

float(b) == IF b THEN FX ELSE 0

\* the lambda of df.apply (lines 346-355) on one row
RimOfRow(r, mx) ==
    compute_rim_with_logC(r.CPY, mx, FX \div 2, float(r.is_OA),
                          IF r.Is_Retracted THEN 0 ELSE FX,
                          float(r.Funder_present),
                          r.Author_affil_completeness * (FX \div 1000), 0)

\* lines 358-359: 1 - RIM / 100, clipped to [0, 1], in 1/FX
RiskOf(rim) == Min(Max(FX - (rim * FX) \div (100 * 100), 0), FX)

\* mutant of MaxCpy: the maximum is taken before the batch is complete
MaxCpy_FirstRow(rs) == IF rs = <<>> THEN 0 ELSE Head(rs).CPY

\* df['CPY'].max()
RECURSIVE MaxCpy(_)
MaxCpy(rs) == IF rs = <<>> THEN 0 ELSE Max(Head(rs).CPY, MaxCpy(Tail(rs)))

\* --------------------------------------------------------------- state
VARIABLES
    pc,            \* position of the run
    profile,       \* outcome of serpapi_fetch_author
    serp_articles, \* data["articles"][:10]
    idx,           \* 1-based position of the loop in serp_articles
    loc,           \* the locals of the loop body for the paper in progress
    calls,         \* the resolver calls made for the paper in progress
    rows,          \* the rows appended so far
    df,            \* the DataFrame built from rows
    max_cpy,       \* df['CPY'].max()
    RIM,           \* the RIM column, filled row by row
    Risk_Factor    \* the Risk_Factor column

vars == <<pc, profile, serp_articles, idx, loc, calls, rows, df, max_cpy, RIM,
          Risk_Factor>>

\* the article lists the profile source may return
\* (a profile lists a paper once)
Batches ==
    UNION {{b \in [1..n -> 1..Len(StubUniverse)] :
               \A i, j \in 1..n : b[i] = b[j] => i = j} : n \in 0..MaxStubs}

ArticlesOf(b) == [k \in 1..Len(b) |-> StubUniverse[b[k]]]

LocInit ==
    [title_serp |-> "", cited_by_val |-> 0, doi |-> "", cr |-> CR_EMPTY,
     title_cr |-> "", journal |-> "", year |-> None, num_authors |-> 0,
     authors_with_aff |-> 0, funder_flag |-> FALSE, doi_final |-> "",
     citations |-> 0, is_retracted |-> FALSE, is_oa |-> FALSE]

Call(fn, arg, cit, retracted, doi) ==
    [fn |-> fn, arg |-> arg, cit |-> cit, retracted |-> retracted, DOI |-> doi]

Init ==
    /\ pc = "idle"
    /\ profile = "none"
    /\ serp_articles = <<>>
    /\ idx = 0
    /\ loc = LocInit
    /\ calls = <<>>
    /\ rows = <<>>
    /\ df = <<>>
    /\ max_cpy = 0
    /\ RIM = <<>>
    /\ Risk_Factor = <<>>

\* lines 217-222: the button press with its two input checks
Analyze ==
    /\ pc = "idle"
    /\ \E scholar_id \in {"", "tPeUsekAAAAJ"}, SERPAPI_KEY \in {"", "key"} :
          pc' = IF scholar_id = "" \/ SERPAPI_KEY = "" THEN "input_error"
                ELSE "fetch_profile"
    /\ UNCHANGED <<profile, serp_articles, idx, loc, calls, rows, df, max_cpy,
                   RIM, Risk_Factor>>

\* mutant of FetchProfile: an empty profile does not stop the run
FetchProfile_NoStop ==
    /\ pc = "fetch_profile"
    /\ \/ /\ profile' = "http_error"
          /\ pc' = "error_http"
          /\ UNCHANGED serp_articles
       \/ /\ profile' = "exception"
          /\ pc' = "error"
          /\ UNCHANGED serp_articles
       \/ \E b \in Batches :
            /\ serp_articles' = Take(ArticlesOf(b), ArticleCap)
            /\ profile' = IF serp_articles' = <<>> THEN "empty" ELSE "ok"
            /\ pc' = IF serp_articles' = <<>> THEN "frame" ELSE "paper"
    /\ idx' = IF pc' = "paper" THEN 1 ELSE idx
    /\ UNCHANGED <<loc, calls, rows, df, max_cpy, RIM, Risk_Factor>>

\* lines 226-241 with the handlers of lines 421-426: raise_for_status ends in
\* the HTTPError handler, any other exception in the generic one; st.stop()
\* on an empty article list ends the script run past both handlers
FetchProfile ==
    /\ pc = "fetch_profile"
    /\ \/ /\ profile' = "http_error"
          /\ pc' = "error_http"
          /\ UNCHANGED serp_articles
       \/ /\ profile' = "exception"
          /\ pc' = "error"
          /\ UNCHANGED serp_articles
       \/ \E b \in Batches :
            /\ serp_articles' = Take(ArticlesOf(b), ArticleCap)
            /\ profile' = IF serp_articles' = <<>> THEN "empty" ELSE "ok"
            /\ pc' = IF serp_articles' = <<>> THEN "stopped" ELSE "paper"
    /\ idx' = IF pc' = "paper" THEN 1 ELSE idx
    /\ UNCHANGED <<loc, calls, rows, df, max_cpy, RIM, Risk_Factor>>

\* lines 243-261: loop head, inline count, identifier extraction
BeginPaper ==
    /\ pc = "paper"
    /\ LET art == serp_articles[idx] IN
       /\ loc' = [LocInit EXCEPT !.title_serp = Strip(art.title),
                                 !.cited_by_val = cited_by_of(art),
                                 !.doi = extract_doi_from_serp_item(art)]
       /\ pc' = IF loc'.doi # "" THEN "crossref_doi" ELSE "crossref_title"
    /\ calls' = <<>>
    /\ UNCHANGED <<profile, serp_articles, idx, rows, df, max_cpy, RIM, Risk_Factor>>

\* lines 265-266: fetch_crossref_by_doi
CrossrefByDoi ==
    /\ pc = "crossref_doi"
    /\ \E r \in CrossrefByDoiResponses(loc.doi) :
          /\ loc' = [loc EXCEPT !.cr = r]
          /\ pc' = IF r = CR_EMPTY THEN "crossref_title" ELSE "merge"
    /\ calls' = Append(calls, Call("crossref_doi", loc.doi, 0, FALSE, ""))
    /\ UNCHANGED <<profile, serp_articles, idx, rows, df, max_cpy, RIM, Risk_Factor>>

\* lines 267-268: fetch_crossref_by_title
CrossrefByTitle ==
    /\ pc = "crossref_title"
    /\ \E r \in CrossrefByTitleResponses : loc' = [loc EXCEPT !.cr = r]
    /\ pc' = "merge"
    /\ calls' = Append(calls, Call("crossref_title", loc.title_serp, 0, FALSE, ""))
    /\ UNCHANGED <<profile, serp_articles, idx, rows, df, max_cpy, RIM, Risk_Factor>>

\* mutant of NeedTitleLookup: the retraction flag of the DOI lookup is ignored
NeedTitleLookup_IgnoresRetraction(doi_final, citations, is_retracted) ==
    doi_final = "" \/ citations = 0

\* line 304: is the title lookup of the citation service made
NeedTitleLookup(doi_final, citations, is_retracted) ==
    doi_final = "" \/ (citations = 0 /\ ~is_retracted)

\* line 297
DoiFinal(cr, doi) == Strip(IF cr.DOI # "" THEN cr.DOI ELSE doi)

\* lines 270-302: field merge; an exception leaves the loop for line 424
MergeMetadata ==
    /\ pc = "merge"
    /\ LET art == serp_articles[idx]
           cr  == loc.cr
           j   == ResolveJournal(cr, art)
           y   == ResolveYear(cr, art)
           pa  == parse_crossref_authors_and_affiliations(cr)
       IN  IF ~j.ok \/ ~y.ok
           THEN /\ pc' = "error"
                /\ UNCHANGED loc
           ELSE /\ loc' = [loc EXCEPT
                     !.title_cr = IF cr.title # <<>> THEN cr.title[1]
                                  ELSE loc.title_serp,
                     !.journal = j.v,
                     !.year = y.v,
                     !.num_authors = ResolveNumAuthors(cr, art),
                     !.authors_with_aff =
                         IF cr # CR_EMPTY THEN pa.authors_with_aff ELSE 0,
                     !.funder_flag = (cr.funder # <<>>),
                     !.doi_final = DoiFinal(cr, loc.doi)]
                /\ pc' = IF loc'.doi_final # "" THEN "s2_doi" ELSE "s2_title"
    /\ UNCHANGED <<profile, serp_articles, idx, calls, rows, df, max_cpy, RIM,
                   Risk_Factor>>

\* lines 302-304: fetch_semanticscholar_by_doi
S2ByDoi ==
    /\ pc = "s2_doi"
    /\ \E r \in S2DoiResponses :
          /\ loc' = [loc EXCEPT !.citations = r.cit, !.is_retracted = r.retracted]
          /\ calls' = Append(calls,
                 Call("s2_doi", loc.doi_final, r.cit, r.retracted, ""))
          /\ pc' = IF NeedTitleLookup(loc.doi_final, r.cit, r.retracted)
                   THEN "s2_title" ELSE "open_access"
    /\ UNCHANGED <<profile, serp_articles, idx, rows, df, max_cpy, RIM, Risk_Factor>>

\* the DOI after the title lookup (lines 308-309)
Backfill(doi_final, sc_doi) ==
    IF doi_final = "" THEN (IF sc_doi # "" THEN sc_doi ELSE doi_final)
    ELSE doi_final

\* lines 305-310: fetch_semanticscholar_by_title and what is kept of it
S2ByTitle ==
    /\ pc = "s2_title"
    /\ \E r \in S2TitleResponses :
          /\ loc' = IF r.cit # 0
                    THEN [loc EXCEPT
                            !.citations = r.cit,
                            !.doi_final = Backfill(loc.doi_final, r.DOI),
                            !.is_retracted = loc.is_retracted \/ r.retracted]
                    ELSE loc
          /\ calls' = Append(calls,
                 Call("s2_title", loc.title_serp, r.cit, r.retracted, r.DOI))
    /\ pc' = "open_access"
    /\ UNCHANGED <<profile, serp_articles, idx, rows, df, max_cpy, RIM, Risk_Factor>>

\* mutant of StubFallback: the inline count wins over the looked-up count
StubFallback_InlineFirst(citations, cited_by_val) ==
    IF cited_by_val # 0 THEN cited_by_val ELSE citations

\* lines 311-312
StubFallback(citations, cited_by_val) ==
    IF citations = 0 THEN cited_by_val ELSE citations

\* lines 311-315: inline-count fallback, then fetch_unpaywall when a DOI is known
OpenAccess ==
    /\ pc = "open_access"
    /\ \E oa \in BOOLEAN :
          /\ loc.doi_final = "" => oa = FALSE
          /\ loc' = [loc EXCEPT
                       !.citations = StubFallback(loc.citations, loc.cited_by_val),
                       !.is_oa = oa]
    /\ calls' = IF loc.doi_final # ""
                THEN Append(calls, Call("unpaywall", loc.doi_final, 0, FALSE, ""))
                ELSE calls
    /\ pc' = "append"
    /\ UNCHANGED <<profile, serp_articles, idx, rows, df, max_cpy, RIM, Risk_Factor>>

\* lines 318-337: the row of the paper in progress
RowOf(l) ==
    [Title |-> l.title_cr,
     Journal |-> l.journal,
     Year |-> IF YearTruthy(l.year) THEN l.year ELSE None,
     Num_Authors |-> l.num_authors,
     DOI |-> l.doi_final,
     Citations |-> l.citations,
     CPY |-> compute_cpy(l.citations, l.year),
     is_OA |-> l.is_oa,
     Funder_present |-> l.funder_flag,
     Author_affil_completeness |->
         IF l.num_authors # 0
         THEN RoundHalfEven(l.authors_with_aff * 1000, l.num_authors) ELSE 0,
     Is_Retracted |-> l.is_retracted]

\* lines 318-339; the locals are dead afterwards (every one is assigned
\* again before it is read), so they return to their initial values
AppendRow ==
    /\ pc = "append"
    /\ rows' = Append(rows, RowOf(loc))
    /\ idx' = idx + 1
    /\ pc' = IF idx = Len(serp_articles) THEN "frame" ELSE "paper"
    /\ loc' = LocInit
    /\ calls' = <<>>
    /\ UNCHANGED <<profile, serp_articles, df, max_cpy, RIM, Risk_Factor>>

\* lines 342-343
BuildFrame ==
    /\ pc = "frame"
    /\ df' = rows
    /\ max_cpy' = MaxCpy(rows)
    /\ pc' = "rim"
    /\ UNCHANGED <<profile, serp_articles, idx, loc, calls, rows, RIM, Risk_Factor>>

\* lines 346-355: df.apply computes the RIM of the next row
ComputeRim ==
    /\ pc = "rim"
    /\ LET k == Len(RIM) + 1 IN
       /\ RIM' = Append(RIM, RimOfRow(df[k], max_cpy))
       /\ pc' = IF k = Len(df) THEN "risk" ELSE "rim"
    /\ UNCHANGED <<profile, serp_articles, idx, loc, calls, rows, df, max_cpy,
                   Risk_Factor>>

\* lines 358-359
AddRiskFactor ==
    /\ pc = "risk"
    /\ Risk_Factor' = [k \in 1..Len(RIM) |-> RiskOf(RIM[k])]
    /\ pc' = "done"
    /\ UNCHANGED <<profile, serp_articles, idx, loc, calls, rows, df, max_cpy, RIM>>

Next ==
    \/ Analyze
    \/ FetchProfile
    \/ BeginPaper
    \/ CrossrefByDoi
    \/ CrossrefByTitle
    \/ MergeMetadata
    \/ S2ByDoi
    \/ S2ByTitle
    \/ OpenAccess
    \/ AppendRow
    \/ BuildFrame
    \/ ComputeRim
    \/ AddRiskFactor

Spec == Init /\ [][Next]_vars

\* ============================================================== claims
\* the paper in progress has passed every resolver and its row is about to
\* be appended
PaperResolved == pc = "append"

CallsTo(fn) == {k \in 1..Len(calls) : calls[k].fn = fn}
Attempted(fn) == CallsTo(fn) # {}

\* the DOI known before the citation lookups start (line 297)
DoiBeforeCitations == DoiFinal(loc.cr, loc.doi)

\* C1: the retraction flag of a paper is the OR of the retraction flags of
\* every citation lookup made for it (by DOI and by title), whatever count
\* the lookup returned.
C1_RetractionIsOrOfAttempts ==
    PaperResolved =>
        (loc.is_retracted <=>
            \E k \in CallsTo("s2_doi") \cup CallsTo("s2_title") : calls[k].retracted)

\* C2: once the profile is fetched no paper aborts: the run never ends in the
\* exception handler, and a finished run has one record per stub.
C2_OneRecordPerStub ==
    profile = "ok" =>
        /\ pc # "error"
        /\ pc = "done" => Len(df) = Len(serp_articles)

\* C3: the title lookup of the citation service is made exactly when the DOI
\* is absent or the DOI lookup returned zero citations and no retraction; a
\* non-zero DOI count excludes it.
C3_TitleLookupExactlyWhen ==
    PaperResolved =>
        /\ Attempted("s2_title") <=>
              \/ DoiBeforeCitations = ""
              \/ \E k \in CallsTo("s2_doi") :
                    calls[k].cit = 0 /\ ~calls[k].retracted
        /\ (\E k \in CallsTo("s2_doi") : calls[k].cit # 0) => ~Attempted("s2_title")
        /\ Attempted("s2_doi") <=> DoiBeforeCitations # ""

C3_Witness ==
    /\ PaperResolved
    /\ \E k \in CallsTo("s2_doi") : calls[k].cit = 0 /\ calls[k].retracted
    /\ ~Attempted("s2_title")

\* the count a lookup returned, 0 when the lookup was not made
CountOf(fn) == IF Attempted(fn) THEN calls[CHOOSE k \in CallsTo(fn) : TRUE].cit ELSE 0

\* the inline count of a stub: cited_by.value of a mapping, or an integer cited_by
InlineCount(art) ==
    IF art.cited_by.t = "int" THEN art.cited_by.n
    ELSE IF art.cited_by.t = "dict" /\ GetKV(art.cited_by.kv, "value").t = "int"
         THEN GetKV(art.cited_by.kv, "value").n
    ELSE 0

\* C4: citations is the first non-zero of: the DOI-lookup count, the
\* title-lookup count, the stub's inline count; else 0.  Scenario A: inline
\* count 12, no DOI, every lookup empty gives citations 12, doi "", not open.
C4_CitationsFirstNonZero ==
    PaperResolved =>
        LET art == serp_articles[idx] IN
        /\ loc.citations =
              IF CountOf("s2_doi") # 0 THEN CountOf("s2_doi")
              ELSE IF CountOf("s2_title") # 0 THEN CountOf("s2_title")
              ELSE InlineCount(art)
        /\ RowOf(loc).Citations = loc.citations
        /\ (/\ art.title = "A"
            /\ loc.cr = CR_EMPTY
            /\ \A k \in CallsTo("s2_title") : calls[k].cit = 0 /\ calls[k].DOI = "")
           => /\ RowOf(loc).Citations = 12
              /\ RowOf(loc).DOI = ""
              /\ RowOf(loc).is_OA = FALSE

C4_Witness ==
    /\ PaperResolved
    /\ serp_articles[idx].title = "A"
    /\ loc.cr = CR_EMPTY
    /\ Attempted("s2_title") /\ CountOf("s2_title") = 0
    /\ loc.citations = 12
    /\ loc.doi_final = ""

\* C5: a DOI extracted from the stub is the durable key: every later lookup
\* by DOI uses it and the record's doi equals it.
C5_StubDoiIsDurableKey ==
    (PaperResolved /\ loc.doi # "") =>
        /\ loc.doi_final = loc.doi
        /\ \A k \in CallsTo("crossref_doi") \cup CallsTo("s2_doi")
                    \cup CallsTo("unpaywall") : calls[k].arg = loc.doi

\* C6: every RIM is within [0, 100] and every Risk_Factor is 1 - RIM/100
\* within [0, 1].
C6_RimAndRiskBounded ==
    /\ \A k \in 1..Len(RIM) : RIM[k] >= 0 /\ RIM[k] <= 100 * 100
    /\ \A k \in 1..Len(Risk_Factor) :
          /\ Risk_Factor[k] >= 0 /\ Risk_Factor[k] <= FX
          /\ Risk_Factor[k] * 100 * 100 = (100 * 100 - RIM[k]) * FX
          /\ RIM[k] = 0 => Risk_Factor[k] = FX
          /\ RIM[k] = 100 * 100 => Risk_Factor[k] = 0

C6_Witness ==
    /\ pc = "done"
    /\ Len(Risk_Factor) = 2
    /\ RIM[1] >= 80 * 100
    /\ RIM[2] <= 10 * 100

\* the RIM of a row whose citation component is C
RimGivenC(r, C) ==
    WeightedRim(C, FX \div 2, float(r.is_OA), IF r.Is_Retracted THEN 0 ELSE FX,
                float(r.Funder_present),
                r.Author_affil_completeness * (FX \div 1000), 0)

\* C7: no RIM exists before every row of the batch is built; every RIM is
\* computed with the maximum CPY of the whole batch; CPY 0 gives C = 0 and a
\* CPY equal to a positive maximum gives C = 1, at any position.
C7_TwoPhaseScoring ==
    /\ pc \in {"paper", "crossref_doi", "crossref_title", "merge", "s2_doi",
               "s2_title", "open_access", "append", "frame"} => RIM = <<>>
    /\ RIM # <<>> =>
          /\ Len(rows) = Len(serp_articles)
          /\ df = rows
          /\ \A k \in 1..Len(df) : df[k].CPY <= max_cpy
          /\ \E k \in 1..Len(df) : df[k].CPY = max_cpy
          /\ \A k \in 1..Len(RIM) :
                /\ df[k].CPY = 0 => RIM[k] = RimGivenC(df[k], 0)
                /\ (max_cpy > 0 /\ df[k].CPY = max_cpy) => RIM[k] = RimGivenC(df[k], FX)
                /\ RIM[k] >= RimGivenC(df[k], 0)
                /\ RIM[k] <= RimGivenC(df[k], FX)

C7_Witness ==
    /\ pc = "done"
    /\ Len(df) = 2
    /\ df[1].CPY = max_cpy /\ max_cpy > 0
    /\ df[2].CPY = 0

\* C8: without a fetched, non-empty profile there is no resolver call and no
\* scoring: a failed fetch ends in an error handler, an empty profile in the
\* non-fatal stop.
C8_NoWorkWithoutProfile ==
    /\ profile = "http_error" => pc = "error_http"
    /\ profile = "exception" => pc = "error"
    /\ profile = "empty" => pc = "stopped"
    /\ profile = "none" => pc \in {"idle", "input_error", "fetch_profile"}
    /\ profile # "ok" =>
          /\ calls = <<>> /\ rows = <<>> /\ df = <<>>
          /\ RIM = <<>> /\ Risk_Factor = <<>>
    /\ (calls # <<>> \/ rows # <<>>) => serp_articles # <<>>

C8_Witness == pc = "stopped" /\ profile = "empty" /\ serp_articles = <<>>

\* the year of a registry date field, None when missing or malformed
SourceYear(d) ==
    IF d.t = "parts" /\ d.parts # <<>> /\ d.parts[1] # <<>> /\ YearTruthy(d.parts[1][1])
    THEN d.parts[1][1] ELSE None

NestedYear(art) ==
    IF art.publication.t = "dict" /\ GetKV(art.publication.kv, "year").t = "int"
    THEN GetKV(art.publication.kv, "year").n ELSE None

\* C9: the year is the first available of: registry "issued", registry
\* "published-print", stub year, stub nested publication year; a missing or
\* malformed source falls through to the next; no year is absent, never 0.
C9_YearPriority ==
    PaperResolved =>
        LET art == serp_articles[idx]
            y1  == SourceYear(loc.cr.issued)
            y2  == SourceYear(loc.cr.pp)
            y3  == art.year
            y4  == NestedYear(art)
        IN  /\ RowOf(loc).Year =
                  IF YearTruthy(y1) THEN y1
                  ELSE IF YearTruthy(y2) THEN y2
                  ELSE IF YearTruthy(y3) THEN y3
                  ELSE IF YearTruthy(y4) THEN y4
                  ELSE None
            /\ RowOf(loc).Year # 0

\* C10: a title lookup made while the DOI is unset backfills the DOI with the
\* identifier it returns, whatever count it returned, and the open-access
\* lookup then uses it; a DOI already set is not overwritten.
C10_TitleLookupBackfillsDoi ==
    PaperResolved =>
        /\ \A k \in CallsTo("s2_title") :
              (DoiBeforeCitations = "" /\ calls[k].DOI # "") =>
                  /\ loc.doi_final = calls[k].DOI
                  /\ \E u \in CallsTo("unpaywall") : calls[u].arg = calls[k].DOI
        /\ DoiBeforeCitations # "" => loc.doi_final = DoiBeforeCitations

====
